---- MODULE Spec2Model ----
(***************************************************************************)
(* Model of the retrieval-and-indexing core of multilingual-docqabot:     *)
(*   app/rag.py         EmbeddingModel.embed, embed_chunks,                *)
(*                      retrieve_relevant_chunks                           *)
(*   app/qa.py          build_sources                                      *)
(*   app/embeddings.py  smart_chunk_text, summarize_text and its cache     *)
(*   app/api.py         upload_api, ask_api, reset_dataset, rate_limiter   *)
(* Each component has its own specification (SpecRetrieve, SpecIndex,      *)
(* SpecSources, SpecCache, SpecChunk, SpecEmbed, SpecApi, SpecConcurrent,  *)
(* SpecRate)                                                               *)
(* over its own variables; the variables of the other components stay at   *)
(* their initial value.                                                    *)
(*                                                                         *)
(* Floats are fixed-point numbers in tenths: a distance of 0.7 is 7, a     *)
(* keyword_weight of 0.2 is 2, an mmr_lambda of 0.5 is 5.  A score that    *)
(* multiplies two of them is kept in hundredths.                           *)
(***************************************************************************)
EXTENDS Integers, Sequences, FiniteSets, TLC

VARIABLES
    ret,         \* retrieve_relevant_chunks: the collection queried, the last call's arguments, locals and result
    collection,  \* embed_chunks: the ChromaDB collection, chunk id -> stored entry
    call,        \* embed_chunks: the running (or last) call: arguments, position, what it sent
    src,         \* build_sources: the last call's arguments, locals and result
    cache,       \* summary cache directory: key -> stored summary
    summ,        \* summarize_text: the last chunk summarized, the model calls made
    chk,         \* smart_chunk_text: the last call's arguments and result
    emb,         \* EmbeddingModel.embed: the running (or last) call: attempts made, how it ended
    stores,      \* datasets on disk: directory under CHROMA_DB_DIR -> the doc_chunks collection stored in it
    last_docs,   \* api.last_docs: dataset name -> last uploaded document
    reqs,        \* the requests being served: client -> handler, arguments, position, answer
    resets,      \* datasets whose reset has returned ok, no upload into them having succeeded since
    indexers,    \* concurrent embed_chunks calls on one collection: each call's position, and the last write per id
    limiter      \* api.rate_limiter: the clock, _rate_state, each thread's call in progress, and the requests accepted

vars == <<ret, collection, call, src, cache, summ, chk, emb, stores, last_docs, reqs, resets, indexers, limiter>>

(***************************************************************************)
(* Python helpers                                                          *)
(***************************************************************************)
Min(a, b) == IF a <= b THEN a ELSE b
Max(a, b) == IF a >= b THEN a ELSE b
Abs(a) == IF a < 0 THEN -a ELSE a
SetMax(S) == CHOOSE x \in S : \A y \in S : y <= x
Range(s) == {s[i] : i \in 1..Len(s)}

\* s[:k] of a Python list
PyPrefix(s, k) ==
    IF k >= 0 THEN SubSeq(s, 1, Min(k, Len(s)))
    ELSE SubSeq(s, 1, Max(Len(s) + k, 0))

\* s[i:i+n] of a Python list, i 0-based, i >= 0, n >= 0
PySlice(s, i, n) == SubSeq(s, i + 1, Min(i + n, Len(s)))

\* s[-k:] of a Python list for k > 0
PySuffix(s, k) == SubSeq(s, Max(Len(s) - k, 0) + 1, Len(s))

(***************************************************************************)
(* Retrieval: app/rag.py retrieve_relevant_chunks                          *)
(***************************************************************************)
MaxStored == 3          \* chunks in the queried collection
MaxTopK == 2            \* top_k ranges over 1..MaxTopK
One == 10               \* the float 1 in tenths
FallbackThreshold == 7  \* 0.7 in tenths

\* raw words of chunk texts and queries
RawWords == {"Cat", "cat.", "dog", "fish", "!"}

\* re.sub(r'[^\w\s]', '', text.lower()) on one word
LowerStrip(w) ==
    CASE w = "Cat" -> "cat"
      [] w = "cat." -> "cat"
      [] w = "!" -> ""
      [] OTHER -> w

\* normalize_text: lowercase, strip punctuation, tokenize; a word that was
\* punctuation only leaves no token
normalize_text(text) ==
    SelectSeq([i \in 1..Len(text) |-> LowerStrip(text[i])], LAMBDA w : w # "")

Texts == {<<"Cat", "dog">>, <<"cat.", "!">>, <<"fish">>}
Queries == {<<"Cat", "dog">>, <<"cat.">>}
Distances == {1, 2, 7, 9}
KeywordWeights == {-2, 0, 2}
Lambdas == {3, 5, 9, 10}

\* what collection.query ranks: the stored chunks by ascending distance to
\* the query embedding; a chunk's id is its rank in that order
Stored == [text : Texts, distance : Distances]
RankedStores ==
    {s \in UNION {[1..n -> Stored] : n \in 0..MaxStored} :
        \A i \in 1..Len(s) - 1 : s[i].distance <= s[i + 1].distance}

\* collection.query(n_results = n): the n nearest, nearest first
collection_query(stored, n) ==
    [i \in 1..Min(n, Len(stored)) |->
        [id |-> i, text |-> stored[i].text, distance |-> stored[i].distance]]

n_results(top_k, mmr) == IF mmr THEN top_k * 8 ELSE top_k * 2

overlap_count(query_words, text) ==
    Cardinality(query_words \cap Range(normalize_text(text)))

\* mutant: the overlap bonus is added to the distance
hybrid_score_added(distance, keyword_weight, ov) == distance + keyword_weight * ov

hybrid_score(distance, keyword_weight, ov) == distance - keyword_weight * ov

\* the hit built from one query result (lines 195-212)
make_hit(r, query_words, hybrid, keyword_weight) ==
    IF hybrid
    THEN [id |-> r.id, text |-> r.text, distance |-> r.distance,
          hybrid_score |-> hybrid_score(r.distance, keyword_weight, overlap_count(query_words, r.text)),
          score |-> hybrid_score(r.distance, keyword_weight, overlap_count(query_words, r.text))]
    ELSE [id |-> r.id, text |-> r.text, distance |-> r.distance,
          score |-> r.distance]

sort_key(h, hybrid) == IF hybrid THEN h.hybrid_score ELSE h.distance

\* mutant: an insertion that puts a hit before the hits of equal key
RECURSIVE insert_unstable(_, _, _)
insert_unstable(sorted, h, hybrid) ==
    IF sorted = <<>> THEN <<h>>
    ELSE IF sort_key(sorted[Len(sorted)], hybrid) < sort_key(h, hybrid)
         THEN Append(sorted, h)
         ELSE Append(insert_unstable(SubSeq(sorted, 1, Len(sorted) - 1), h, hybrid),
                     sorted[Len(sorted)])

\* list.sort(key=...): stable, ascending
RECURSIVE insert_stable(_, _, _)
insert_stable(sorted, h, hybrid) ==
    IF sorted = <<>> THEN <<h>>
    ELSE IF sort_key(sorted[Len(sorted)], hybrid) <= sort_key(h, hybrid)
         THEN Append(sorted, h)
         ELSE Append(insert_stable(SubSeq(sorted, 1, Len(sorted) - 1), h, hybrid),
                     sorted[Len(sorted)])

RECURSIVE sort_hits(_, _)
sort_hits(hits, hybrid) ==
    IF hits = <<>> THEN <<>>
    ELSE insert_stable(sort_hits(SubSeq(hits, 1, Len(hits) - 1), hybrid),
                       hits[Len(hits)], hybrid)

\* mutant: MMR without the redundancy penalty
mmr_score_no_penalty(cand, selected, mmr_lambda) == mmr_lambda * (One - cand.distance)

\* mmr_score of one candidate, in hundredths (lines 226-228)
mmr_score(cand, selected, mmr_lambda) ==
    LET sim_to_query == One - cand.distance
        sim_to_selected ==
            SetMax({One - Abs(cand.distance - selected[j].distance) : j \in 1..Len(selected)})
    IN mmr_lambda * sim_to_query - (One - mmr_lambda) * sim_to_selected

\* mutant: the last index of the maximum
first_max_index_last(scores) ==
    CHOOSE i \in 1..Len(scores) :
        /\ \A j \in 1..Len(scores) : scores[j] <= scores[i]
        /\ \A j \in (i + 1)..Len(scores) : scores[j] < scores[i]

\* mmr_scores.index(max(mmr_scores)): the first index of the maximum
first_max_index(scores) ==
    CHOOSE i \in 1..Len(scores) :
        /\ \A j \in 1..Len(scores) : scores[j] <= scores[i]
        /\ \A j \in 1..(i - 1) : scores[j] < scores[i]

remove_at(s, i) == SubSeq(s, 1, i - 1) \o SubSeq(s, i + 1, Len(s))

\* the while loop of lines 223-231
RECURSIVE mmr_loop(_, _, _, _)
mmr_loop(selected, candidates, top_k, mmr_lambda) ==
    IF Len(selected) < top_k /\ candidates # <<>>
    THEN LET mmr_scores == [c \in 1..Len(candidates) |->
                               mmr_score(candidates[c], selected, mmr_lambda)]
             idx == first_max_index(mmr_scores)
         IN mmr_loop(Append(selected, candidates[idx]), remove_at(candidates, idx),
                     top_k, mmr_lambda)
    ELSE selected

\* lines 219-232
mmr_select(hits, top_k, mmr, mmr_lambda) ==
    IF mmr /\ hits # <<>>
    THEN mmr_loop(<<hits[1]>>, SubSeq(hits, 2, Len(hits)), top_k, mmr_lambda)
    ELSE hits

\* any(w in normalize_text(h['text']) for w in query_words)
has_query_word(h, query_words) ==
    \E w \in query_words : w \in Range(normalize_text(h.text))

\* mutant: the keyword filter keeps every hit
keyword_filter_none(hits, query_words) == hits

keyword_filter(hits, query_words) ==
    SelectSeq(hits, LAMBDA h : has_query_word(h, query_words))

fallback_weak(hits) == hits # <<>> /\ hits[1].distance > FallbackThreshold

\* mutant: the keyword hits are returned without the cut to top_k
fallback_untruncated(hits, query_words, top_k) ==
    IF fallback_weak(hits) /\ keyword_filter(hits, query_words) # <<>>
    THEN keyword_filter(hits, query_words)
    ELSE PyPrefix(hits, top_k)

\* lines 233-239
fallback_or_hits(hits, query_words, top_k) ==
    IF fallback_weak(hits) /\ keyword_filter(hits, query_words) # <<>>
    THEN PyPrefix(keyword_filter(hits, query_words), top_k)
    ELSE PyPrefix(hits, top_k)

RetrieveInit ==
    ret \in {[called |-> FALSE, stored |-> s] : s \in RankedStores}

RetrieveIdle == ret = [called |-> FALSE, stored |-> <<>>]

\* one call of retrieve_relevant_chunks on the collection
retrieve_relevant_chunks(query, top_k, hybrid, keyword_weight, mmr, mmr_lambda) ==
    LET query_words == Range(normalize_text(query))
        results == collection_query(ret.stored, n_results(top_k, mmr))
        hits == [i \in 1..Len(results) |->
                    make_hit(results[i], query_words, hybrid, keyword_weight)]
        ranked == sort_hits(hits, hybrid)
        selected == mmr_select(ranked, top_k, mmr, mmr_lambda)
    IN ret' = [called |-> TRUE, stored |-> ret.stored,
               query |-> query, top_k |-> top_k, hybrid |-> hybrid,
               keyword_weight |-> keyword_weight, mmr |-> mmr, mmr_lambda |-> mmr_lambda,
               query_words |-> query_words,
               pool |-> results, ranked |-> ranked, hits |-> selected,
               result |-> fallback_or_hits(selected, query_words, top_k)]

\* a request runs one retrieval against the collection as it stands
Retrieve ==
    /\ ~ret.called
    /\ \E query \in Queries, top_k \in 1..MaxTopK, hybrid \in BOOLEAN,
          keyword_weight \in KeywordWeights, mmr \in BOOLEAN, mmr_lambda \in Lambdas :
          retrieve_relevant_chunks(query, top_k, hybrid, keyword_weight, mmr, mmr_lambda)
    /\ UNCHANGED <<collection, call, src, cache, summ, chk, emb, stores, last_docs, reqs, resets, indexers, limiter>>

(***************************************************************************)
(* Indexing: app/rag.py embed_chunks                                       *)
(***************************************************************************)
MaxChunks == 2          \* chunks in one call's list

DocNames == {"a.pdf"}
Pages == {0}
ChunkIndexes == {0, 1}
ChunkTexts == {"t1", "t2"}
BatchSizes == {1, 2}

\* a chunk as summarize_text and prepare_chunks_for_embedding hand it over:
\* chunk 0 of the document in two versions of its text, and chunk 1
Chunks ==
    {c \in [doc_name : DocNames, page : Pages, chunk : ChunkIndexes, text : ChunkTexts] :
        c.chunk = 1 => c.text = "t1"}
ChunkLists == UNION {[1..n -> Chunks] : n \in 0..MaxChunks}

\* f"{doc_name}-{int(page)}-{int(chunk)}" (line 116)
chunk_id(c) == c.doc_name \o "-" \o ToString(c.page) \o "-" \o ToString(c.chunk)

\* lines 110-128: the id and document of every chunk, in order
prepared(chunks) == [i \in 1..Len(chunks) |-> [id |-> chunk_id(chunks[i]), doc |-> chunks[i].text]]

\* mutant: the existence check finds nothing
collection_get_none(coll, ids) == {}

\* collection.get(ids=ids)['ids']
collection_get(coll, ids) == {id \in ids : id \in DOMAIN coll}

\* mutant: every chunk is embedded, with and without reembed
to_embed_all(coll, chunks, reembed) == prepared(chunks)

\* lines 130-139: without reembed only the chunks whose id is not stored remain
to_embed(coll, chunks, reembed) ==
    IF reembed THEN prepared(chunks)
    ELSE LET existing == collection_get(coll, {prepared(chunks)[i].id : i \in 1..Len(chunks)})
         IN SelectSeq(prepared(chunks), LAMBDA c : c.id \notin existing)

\* what EmbeddingModel.embed can hand back for a batch: one vector per text,
\* None (every attempt hit the rate limit, line 58-60), or an exception
EmbedOutcomes == {"vectors", "none", "raise"}

\* what collection.add does with ids that are already stored: older ChromaDB
\* raises, newer ChromaDB keeps the stored entry and adds the others
AddOnExisting == {"raise", "ignore"}

has_duplicates(batch) == \E i, j \in 1..Len(batch) : i < j /\ batch[i].id = batch[j].id

\* collection.add raises instead of storing
add_raises(coll, batch, on_existing) ==
    \/ has_duplicates(batch)
    \/ on_existing = "raise" /\ \E i \in 1..Len(batch) : batch[i].id \in DOMAIN coll

\* collection.add(documents, embeddings, metadatas, ids) when it does not raise
collection_add(coll, batch, embeddings) ==
    LET fresh == {i \in 1..Len(batch) : batch[i].id \notin DOMAIN coll}
    IN [id \in DOMAIN coll \cup {batch[i].id : i \in fresh} |->
           IF id \in DOMAIN coll THEN coll[id]
           ELSE LET i == CHOOSE k \in fresh : batch[k].id = id
                IN [doc |-> batch[i].doc,
                    embedding |-> IF embeddings = "none" THEN "default" ELSE "model"]]

NoCollection == [id \in {} |-> 0]

IndexIdle == collection = NoCollection /\ call = [pc |-> "idle", outcome |-> "none"]

\* the last call has ended by returning
Returned(c) == c.pc = "idle" /\ c.outcome = "returned"

\* what stays of a call once it has ended: its arguments, how it ended, what
\* it sent to the backend, the collection it started from and, when it
\* raised ("raised" out of embedding_model.embed, "add_raised" out of
\* collection.add), the ids of the batch it raised in
ended(c, outcome, sent, failed) ==
    [pc |-> "idle", outcome |-> outcome, chunks |-> c.chunks,
     reembed |-> c.reembed, dry_run |-> c.dry_run,
     sent |-> sent, pre |-> c.pre, again |-> c.again, failed |-> failed]

\* mutant: dry_run is not looked at
embed_chunks_begin_no_dry_run(chunks, batch_size, reembed, dry_run) ==
    LET todo == to_embed(collection, chunks, reembed)
        begun == [pc |-> "batch", outcome |-> "running",
                  chunks |-> chunks, batch_size |-> batch_size,
                  reembed |-> reembed, dry_run |-> dry_run,
                  todo |-> todo, i |-> 0, sent |-> 0, pre |-> collection,
                  again |-> FALSE]
    IN /\ call' = IF todo = <<>> THEN ended(begun, "returned", 0, {}) ELSE begun
       /\ UNCHANGED collection

\* embed_chunks up to the batch loop (lines 107-142)
embed_chunks_begin(chunks, batch_size, reembed, dry_run) ==
    LET todo == to_embed(collection, chunks, reembed)
        begun == [pc |-> "batch", outcome |-> "running",
                  chunks |-> chunks, batch_size |-> batch_size,
                  reembed |-> reembed, dry_run |-> dry_run,
                  todo |-> todo, i |-> 0, sent |-> 0, pre |-> collection,
                  again |-> /\ Returned(call)
                            /\ call.chunks = chunks
                            /\ ~call.reembed /\ ~call.dry_run]
    IN /\ call' = IF dry_run \/ todo = <<>> THEN ended(begun, "returned", 0, {}) ELSE begun
       /\ UNCHANGED collection

EmbedChunks ==
    /\ call.pc = "idle"
    /\ \E chunks \in ChunkLists, batch_size \in BatchSizes, reembed \in BOOLEAN, dry_run \in BOOLEAN :
          embed_chunks_begin(chunks, batch_size, reembed, dry_run)
    /\ UNCHANGED <<ret, src, cache, summ, chk, emb, stores, last_docs, reqs, resets, indexers, limiter>>

\* one turn of the batch loop (lines 144-157)
embed_batch(embeddings, on_existing) ==
    LET batch == PySlice(call.todo, call.i, call.batch_size)
        sent == call.sent + Len(batch)
    IN IF embeddings = "raise" \/ add_raises(collection, batch, on_existing)
       THEN /\ call' = ended(call, IF embeddings = "raise" THEN "raised" ELSE "add_raised",
                            sent, {batch[k].id : k \in 1..Len(batch)})
            /\ UNCHANGED collection
       ELSE /\ collection' = collection_add(collection, batch, embeddings)
            /\ call' = IF call.i + call.batch_size >= Len(call.todo)
                       THEN ended(call, "returned", sent, {})
                       ELSE [call EXCEPT !.i = call.i + call.batch_size, !.sent = sent]

EmbedBatch ==
    /\ call.pc = "batch"
    /\ \E embeddings \in EmbedOutcomes, on_existing \in AddOnExisting :
          embed_batch(embeddings, on_existing)
    /\ UNCHANGED <<ret, src, cache, summ, chk, emb, stores, last_docs, reqs, resets, indexers, limiter>>

(***************************************************************************)
(* Source references: app/qa.py build_sources                              *)
(***************************************************************************)
MaxHits == 3            \* hits handed to build_sources
MaxRefsArg == 2         \* max_refs ranges over 0..MaxRefsArg
SnippetMaxLen == 160    \* max_len of _short_snippet

HitDocNames == {"docA", "docB"}
HitPages == {1, 2}
\* chunk texts as character sequences
HitTexts == {<<"a", " ", " ", "b">>, <<" ", "c">>}

\* the k-th smallest element of a set of numbers
kth(S, k) == CHOOSE x \in S : Cardinality({y \in S : y < x}) = k - 1

\* " ".join(text.split()): no leading or trailing blanks, runs of blanks are one blank
split_join(text) ==
    LET keep == {i \in 1..Len(text) : text[i] # " " \/ (i > 1 /\ text[i - 1] # " ")}
        squeezed == [k \in 1..Cardinality(keep) |-> text[kth(keep, k)]]
    IN IF squeezed # <<>> /\ squeezed[Len(squeezed)] = " "
       THEN SubSeq(squeezed, 1, Len(squeezed) - 1)
       ELSE squeezed

\* _short_snippet (lines 54-58)
short_snippet(text) ==
    IF text = <<>> THEN <<>>
    ELSE LET t == split_join(text)
         IN IF Len(t) > SnippetMaxLen THEN SubSeq(t, 1, SnippetMaxLen) \o <<"...">> ELSE t

\* a retrieved hit as build_sources reads it: metadata doc_name, page and
\* chunk_id ("" when the metadata holds neither chunk_id nor uuid), and text.
\* The chunk id of the hit at position i is unique to it.
HitsOfLen(n) ==
    {h \in [1..n -> [doc_name : HitDocNames, page : HitPages,
                     chunk_id : {""} \cup {"c" \o ToString(i) : i \in 1..n},
                     text : HitTexts]] :
        \A i \in 1..n : h[i].chunk_id \in {"", "c" \o ToString(i)}}
HitLists == UNION {HitsOfLen(n) : n \in 0..MaxHits}

\* mutant: hits are grouped by document alone
group_index_by_doc(groups, doc_name, page) ==
    IF \E k \in 1..Len(groups) : groups[k].doc_name = doc_name
    THEN CHOOSE k \in 1..Len(groups) : groups[k].doc_name = doc_name
    ELSE 0

\* the position in groups of the group with this key, 0 when there is none
group_index(groups, doc_name, page) ==
    IF \E k \in 1..Len(groups) : groups[k].doc_name = doc_name /\ groups[k].page = page
    THEN CHOOSE k \in 1..Len(groups) : groups[k].doc_name = doc_name /\ groups[k].page = page
    ELSE 0

\* the body of the loop over the hits (lines 69-83); groups is the dict in
\* insertion order
add_hit(groups, hit) ==
    LET k == group_index(groups, hit.doc_name, hit.page)
        with_key == IF k = 0
                    THEN Append(groups, [doc_name |-> hit.doc_name, page |-> hit.page,
                                         chunk_ids |-> <<>>,
                                         snippet |-> short_snippet(hit.text)])
                    ELSE groups
        at == IF k = 0 THEN Len(with_key) ELSE k
    IN IF hit.chunk_id # ""
       THEN [with_key EXCEPT ![at].chunk_ids = Append(@, hit.chunk_id)]
       ELSE with_key

RECURSIVE group_hits(_)
group_hits(hits) ==
    IF hits = <<>> THEN <<>>
    ELSE add_hit(group_hits(SubSeq(hits, 1, Len(hits) - 1)), hits[Len(hits)])

\* mutant: groups of one page ordered by ascending size
group_le_ascending(g, h) ==
    g.page < h.page \/ (g.page = h.page /\ Len(g.chunk_ids) <= Len(h.chunk_ids))

\* key(g) <= key(h) for key = (page, -len(chunk_ids)) (line 85)
group_le(g, h) ==
    g.page < h.page \/ (g.page = h.page /\ -Len(g.chunk_ids) <= -Len(h.chunk_ids))

\* sorted(groups.values(), key=...): stable, ascending
RECURSIVE insert_group(_, _)
insert_group(sorted, g) ==
    IF sorted = <<>> THEN <<g>>
    ELSE IF group_le(sorted[Len(sorted)], g)
         THEN Append(sorted, g)
         ELSE Append(insert_group(SubSeq(sorted, 1, Len(sorted) - 1), g), sorted[Len(sorted)])

RECURSIVE sort_groups(_)
sort_groups(groups) ==
    IF groups = <<>> THEN <<>>
    ELSE insert_group(sort_groups(SubSeq(groups, 1, Len(groups) - 1)), groups[Len(groups)])

\* lines 86-90: enumerate(ordered[:max_refs], start=1)
numbered(ordered, max_refs) ==
    [i \in 1..Len(PyPrefix(ordered, max_refs)) |->
        [doc_name |-> ordered[i].doc_name, page |-> ordered[i].page,
         chunk_ids |-> ordered[i].chunk_ids, snippet |-> ordered[i].snippet,
         index |-> i]]

SourcesInit == src = [called |-> FALSE]

build_sources(retrieved_chunks, max_refs) ==
    LET ordered == sort_groups(group_hits(retrieved_chunks))
    IN src' = [called |-> TRUE, hits |-> retrieved_chunks, max_refs |-> max_refs,
               ordered |-> ordered, sources |-> numbered(ordered, max_refs)]

BuildSources ==
    /\ ~src.called
    /\ \E retrieved_chunks \in HitLists, max_refs \in 0..MaxRefsArg :
          build_sources(retrieved_chunks, max_refs)
    /\ UNCHANGED <<ret, collection, call, cache, summ, chk, emb, stores, last_docs, reqs, resets, indexers, limiter>>

(***************************************************************************)
(* Summary cache: app/embeddings.py summarize_text, cache_summary,         *)
(* load_cached_summary, clear_cache                                        *)
(***************************************************************************)
CacheChunks == {"a", "ab"}
CacheModels == {"m", "bm"}
PromptSeeds == {"p", "q"}
\* what the chat completion does when it is called: it answers with a
\* content (stripped: a summary, or nothing), or it fails after its retries
ModelOutcomes ==
    {[ok |-> TRUE, content |-> "S"], [ok |-> TRUE, content |-> ""],
     [ok |-> FALSE, content |-> ""]}

\* the outcome recorded for a call of summarize_text that called no model
NotCalled == [ok |-> TRUE, content |-> "-"]

\* the text returned for a failed call (line 172), its message left out
ErrorText == "[ERROR]"

\* mutant: a failed call returns an empty summary
call_openai_with_retries_empty(outcome) == outcome.content

\* call_openai_with_retries (lines 168-172): the content of the answer, or
\* the error text for any exception out of the call
call_openai_with_retries(outcome) ==
    IF outcome.ok THEN outcome.content ELSE ErrorText

\* the content of a cache file that cannot be read as UTF-8 text
Unreadable == "<unreadable>"

\* the (chunk text, model, prompt) triples summarized: one chunk under two
\* prompts, and a second chunk and model whose concatenation with the first
\* prompt reads the same
Triples ==
    {t \in [chunk : CacheChunks, model : CacheModels, prompt_seed : PromptSeeds] :
        \/ t.chunk = "a" /\ t.model = "bm"
        \/ t.chunk = "ab" /\ t.model = "m" /\ t.prompt_seed = "p"}

\* the name of the cache file: the hash of chunk + model + prompt_seed; the
\* hash is taken to be injective on the concatenated text (lines 121, 126)
cache_key(chunk, model, prompt_seed) == chunk \o model \o prompt_seed

NoCache == [k \in {} |-> ""]

\* load_cached_summary: the stored text, None when there is no file; f.read()
\* raises on a file that cannot be read, and nothing catches it
load_cached_summary(chunk, model, prompt_seed) ==
    IF cache_key(chunk, model, prompt_seed) \notin DOMAIN cache
    THEN [found |-> FALSE, raised |-> FALSE, text |-> ""]
    ELSE IF cache[cache_key(chunk, model, prompt_seed)] = Unreadable
    THEN [found |-> TRUE, raised |-> TRUE, text |-> ""]
    ELSE [found |-> TRUE, raised |-> FALSE,
          text |-> cache[cache_key(chunk, model, prompt_seed)]]

\* cache_summary: the file is written, replacing what it held
cache_summary(chunk, summary, model, prompt_seed) ==
    [k \in DOMAIN cache \cup {cache_key(chunk, model, prompt_seed)} |->
        IF k = cache_key(chunk, model, prompt_seed) THEN summary ELSE cache[k]]

\* `if cached:` (line 195): None and the empty string are both false
truthy(cached) == cached.found /\ cached.text # ""

CacheInit == cache = NoCache /\ summ = [called |-> FALSE, seen |-> {}]

\* the body of summarize_text's loop for one chunk (lines 193-208); outcome
\* is what the model call does if it is made.  An exception out of
\* load_cached_summary leaves summarize_text: no model call, nothing written.
summarize_chunk(chunk, model, prompt_seed, use_cache, outcome) ==
    LET cached == IF use_cache THEN load_cached_summary(chunk, model, prompt_seed)
                  ELSE [found |-> FALSE, raised |-> FALSE, text |-> ""]
        triple == [chunk |-> chunk, model |-> model, prompt_seed |-> prompt_seed]
        summary == call_openai_with_retries(outcome)
    IN IF cached.raised
       THEN /\ summ' = [called |-> TRUE, chunk |-> chunk, model |-> model,
                        prompt_seed |-> prompt_seed, cache |-> use_cache,
                        repeat |-> triple \in summ.seen,
                        raised |-> TRUE, invoked |-> FALSE, outcome |-> NotCalled,
                        summary |-> "", seen |-> summ.seen]
            /\ cache' = cache
       ELSE /\ summ' = [called |-> TRUE, chunk |-> chunk, model |-> model,
                        prompt_seed |-> prompt_seed, cache |-> use_cache,
                        repeat |-> triple \in summ.seen,
                        raised |-> FALSE, invoked |-> ~truthy(cached),
                        outcome |-> IF truthy(cached) THEN NotCalled ELSE outcome,
                        summary |-> IF truthy(cached) THEN cached.text ELSE summary,
                        seen |-> IF use_cache THEN summ.seen \cup {triple} ELSE summ.seen]
            /\ cache' = IF ~truthy(cached) /\ use_cache
                        THEN cache_summary(chunk, summary, model, prompt_seed)
                        ELSE cache

SummarizeChunk ==
    /\ \E t \in Triples, use_cache \in BOOLEAN, outcome \in ModelOutcomes :
          summarize_chunk(t.chunk, t.model, t.prompt_seed, use_cache, outcome)
    /\ UNCHANGED <<ret, collection, call, src, chk, emb, stores, last_docs, reqs, resets, indexers, limiter>>

\* a stored cache file is damaged from outside the program (a write cut short,
\* bytes that are not UTF-8): it exists and cannot be read
CorruptEntry ==
    /\ \E k \in DOMAIN cache :
          /\ cache[k] # Unreadable
          /\ cache' = [cache EXCEPT ![k] = Unreadable]
    /\ UNCHANGED <<ret, collection, call, src, summ, chk, emb, stores, last_docs, reqs, resets, indexers, limiter>>

\* clear_cache (lines 42-45): every file of the cache directory is removed
ClearCache ==
    /\ cache' = NoCache
    /\ summ' = [called |-> FALSE, seen |-> {}]
    /\ UNCHANGED <<ret, collection, call, src, chk, emb, stores, last_docs, reqs, resets, indexers, limiter>>

(***************************************************************************)
(* Chunking: app/embeddings.py smart_chunk_text                            *)
(***************************************************************************)
MaxSentences == 4       \* sentences of the input text
MaxSentTokens == 3      \* tokens of one sentence
MaxTokensArg == 3       \* max_tokens ranges over 1..MaxTokensArg
MaxOverlapArg == 2      \* overlap ranges over 0..MaxOverlapArg

\* A text is the sequence of its tokens, tokenizer(text) is that sequence and
\* decode its inverse; ' '.join concatenates.  The tokens of different
\* sentences differ, so a token tells where it comes from.
\* Token j of sentence i is the number 10 * i + j.
sentence_tokens(i, n) == [j \in 1..n |-> 10 * i + j]

\* sent_tokenize(clean_text(text)) with each sentence stripped: the sentences
\* in order, an empty sequence for a sentence that is blank
SentenceLists ==
    UNION {{[i \in 1..n |-> sentence_tokens(i, lens[i])] :
               lens \in [1..n -> 0..MaxSentTokens]} : n \in 0..MaxSentences}

\* The loop state: chunks, current_chunk (joined by ' '.join, here the
\* concatenation of its parts' tokens) and current_tokens.  Each
\* chunk is kept with ov, the number of its leading tokens that were carried
\* over from the chunk before it; ov is not data of the program.
LoopStart == [chunks |-> <<>>, current_chunk |-> <<>>, current_ov |-> 0, current_tokens |-> 0]

\* mutant: the whole closed chunk is carried over into the next one
close_chunk_carry_all(st, sent, overlap) ==
    [chunks |-> Append(st.chunks, [text |-> st.current_chunk, ov |-> st.current_ov]),
     current_chunk |-> st.current_chunk \o sent,
     current_ov |-> Len(st.current_chunk),
     current_tokens |-> Len(st.current_chunk) + Len(sent)]

\* lines 92-102: the current chunk is closed and the next one opened with the
\* sentence, after the last `overlap` tokens of the closed chunk if overlap > 0
close_chunk(st, sent, overlap) ==
    LET chunk_text == st.current_chunk
        chunks == Append(st.chunks, [text |-> chunk_text, ov |-> st.current_ov])
    IN IF overlap > 0 /\ chunk_text # <<>>
       THEN LET overlap_text == PySuffix(chunk_text, overlap)
            IN [chunks |-> chunks, current_chunk |-> overlap_text \o sent,
                current_ov |-> Len(overlap_text),
                current_tokens |-> Len(overlap_text) + Len(sent)]
       ELSE [chunks |-> chunks, current_chunk |-> sent, current_ov |-> 0,
             current_tokens |-> Len(sent)]

\* mutant: a sentence longer than max_tokens is dropped
force_split_drop(st, sent) ==
    [chunks |-> st.chunks, current_chunk |-> <<>>, current_ov |-> 0, current_tokens |-> 0]

\* lines 104-107: a sentence longer than max_tokens is a chunk of its own
force_split(st, sent) ==
    [chunks |-> Append(st.chunks, [text |-> sent, ov |-> 0]),
     current_chunk |-> <<>>, current_ov |-> 0, current_tokens |-> 0]

\* lines 109-110
append_sentence(st, sent) ==
    [st EXCEPT !.current_chunk = @ \o sent, !.current_tokens = @ + Len(sent)]

\* the body of the loop over the sentences (lines 86-110)
chunk_step(st, sent, max_tokens, overlap) ==
    IF sent = <<>> THEN st
    ELSE IF st.current_tokens + Len(sent) > max_tokens
         THEN IF st.current_chunk # <<>>
              THEN close_chunk(st, sent, overlap)
              ELSE force_split(st, sent)
         ELSE append_sentence(st, sent)

RECURSIVE chunk_loop(_, _, _)
chunk_loop(sentences, max_tokens, overlap) ==
    IF sentences = <<>> THEN LoopStart
    ELSE chunk_step(chunk_loop(SubSeq(sentences, 1, Len(sentences) - 1), max_tokens, overlap),
                    sentences[Len(sentences)], max_tokens, overlap)

\* mutant: the trailing chunk is not flushed
smart_chunk_text_no_flush(sentences, max_tokens, overlap) ==
    chunk_loop(sentences, max_tokens, overlap).chunks

\* lines 111-113: the trailing chunk is flushed
smart_chunk_text(sentences, max_tokens, overlap) ==
    LET st == chunk_loop(sentences, max_tokens, overlap)
    IN IF st.current_chunk # <<>>
       THEN Append(st.chunks, [text |-> st.current_chunk, ov |-> st.current_ov])
       ELSE st.chunks

ChunkInit == chk = [called |-> FALSE]

SmartChunkText ==
    /\ ~chk.called
    /\ \E sentences \in SentenceLists, max_tokens \in 1..MaxTokensArg, overlap \in 0..MaxOverlapArg :
          chk' = [called |-> TRUE, sentences |-> sentences, max_tokens |-> max_tokens,
                  overlap |-> overlap,
                  chunks |-> smart_chunk_text(sentences, max_tokens, overlap)]
    /\ UNCHANGED <<ret, collection, call, src, cache, summ, emb, stores, last_docs, reqs, resets, indexers, limiter>>

(***************************************************************************)
(* Embedding backend: app/rag.py EmbeddingModel.embed                      *)
(***************************************************************************)
MaxRetries == 5         \* max_retries ranges over 1..MaxRetries (default 5)
MaxTexts == 2           \* texts of one embed call

ModelNames == {"openai", "sentence-transformers", "other"}

\* how one client.embeddings.create call can end
AttemptOutcomes == {"ok", "RateLimitError", "Exception"}

EmbedIdle == emb = [pc |-> "idle", outcome |-> "none"]

\* the call has ended: it returned `result` or raised
embed_returned(e, result) ==
    [pc |-> "done", outcome |-> "returned", result |-> result,
     model_name |-> e.model_name, texts |-> e.texts, max_retries |-> e.max_retries,
     failures |-> e.failures, sleeps |-> e.sleeps, calls |-> e.calls]

embed_raised(e) ==
    [pc |-> "done", outcome |-> "raised", result |-> [kind |-> "nothing", n |-> 0],
     model_name |-> e.model_name, texts |-> e.texts, max_retries |-> e.max_retries,
     failures |-> e.failures, sleeps |-> e.sleeps, calls |-> e.calls]

\* one vector per text
vectors(texts) == [kind |-> "vectors", n |-> texts]

\* the value of a call that ends without a return statement
None == [kind |-> "None", n |-> 0]

\* embed up to the first attempt (lines 43-47, 66-70); st_ok is whether
\* st_embedder.encode returns
embed_begin(model_name, texts, max_retries, st_ok) ==
    LET e == [pc |-> "attempt", outcome |-> "running", model_name |-> model_name,
              texts |-> texts, max_retries |-> max_retries, attempt |-> 0,
              failures |-> <<>>, sleeps |-> <<>>, calls |-> 0]
    IN emb' = IF model_name = "openai" THEN e
              ELSE IF model_name = "sentence-transformers" /\ st_ok
                   THEN embed_returned(e, vectors(texts))
                   ELSE embed_raised(e)

Embed ==
    /\ emb.pc = "idle"
    /\ \E model_name \in ModelNames, texts \in 1..MaxTexts,
          max_retries \in 1..MaxRetries, st_ok \in BOOLEAN :
          embed_begin(model_name, texts, max_retries, st_ok)
    /\ UNCHANGED <<ret, collection, call, src, cache, summ, chk, stores, last_docs, reqs, resets, indexers, limiter>>

RateLimitSleep == 60    \* time.sleep(60)

\* 2 ** n
RECURSIVE pow2(_)
pow2(n) == IF n = 0 THEN 1 ELSE 2 * pow2(n - 1)

\* lines 58-60: RateLimitError is logged and slept on for 60 seconds; after
\* the last attempt the loop is over and the function ends without a return
\* statement.  sleeps holds, failure by failure, the seconds slept after it
\* (0: no sleep).
after_rate_limit(e) ==
    LET slept == [e EXCEPT !.sleeps = Append(@, RateLimitSleep)]
    IN IF e.attempt + 1 < e.max_retries
       THEN [slept EXCEPT !.attempt = @ + 1]
       ELSE embed_returned(slept, None)

\* mutant: the exponential backoff starts at 2 seconds
after_exception_late_backoff(e) ==
    IF e.attempt < e.max_retries - 1
    THEN [e EXCEPT !.sleeps = Append(@, pow2(e.attempt + 1)), !.attempt = @ + 1]
    ELSE embed_raised([e EXCEPT !.sleeps = Append(@, 0)])

\* lines 61-66: any other exception is retried after 2 ** attempt seconds and
\* re-raised in the last attempt
after_exception(e) ==
    IF e.attempt < e.max_retries - 1
    THEN [e EXCEPT !.sleeps = Append(@, pow2(e.attempt)), !.attempt = @ + 1]
    ELSE embed_raised([e EXCEPT !.sleeps = Append(@, 0)])

\* one turn of the retry loop (lines 47-66): one client.embeddings.create call
embed_attempt(outcome) ==
    LET called == [emb EXCEPT !.calls = @ + 1]
        failed == [called EXCEPT !.failures = Append(@, outcome)]
    IN emb' = IF outcome = "ok" THEN embed_returned(called, vectors(emb.texts))
              ELSE IF outcome = "RateLimitError" THEN after_rate_limit(failed)
              ELSE after_exception(failed)

EmbedAttempt ==
    /\ emb.pc = "attempt"
    /\ \E outcome \in AttemptOutcomes : embed_attempt(outcome)
    /\ UNCHANGED <<ret, collection, call, src, cache, summ, chk, stores, last_docs, reqs, resets, indexers, limiter>>

(***************************************************************************)
(* Datasets: app/api.py upload_api, ask_api, reset_dataset over            *)
(* app/rag.py get_chroma_client, get_or_create_collection                  *)
(***************************************************************************)
\* upload_api runs on the event loop, ask_api and reset_dataset (plain def)
\* in the thread pool: a handler's steps interleave with those of the others.
Clients == {"c1", "c2"}

\* dataset names as the clients send them
DatasetNames == {"a", "a/b", "b"}

\* os.path.join(CHROMA_DB_DIR, name): the directory, as its path components
\* below CHROMA_DB_DIR
db_dir(namespace) ==
    IF namespace = "a" THEN <<"a">>
    ELSE IF namespace = "a/b" THEN <<"a", "b">>
    ELSE <<"b">>

\* directory d is target or lies below it
is_under(d, target) == Len(d) >= Len(target) /\ SubSeq(d, 1, Len(target)) = target

\* os.makedirs(db_dir, exist_ok=True): the directory and the missing ones
\* above it exist afterwards, a new directory holding no stored chunk
makedirs(st, d) ==
    [x \in DOMAIN st \cup {SubSeq(d, 1, k) : k \in 1..Len(d)} |->
        IF x \in DOMAIN st THEN st[x] ELSE NoCollection]

\* shutil.rmtree(target): target goes with everything below it
rmtree(st, target) == [x \in {d \in DOMAIN st : ~is_under(d, target)} |-> st[x]]

\* the chunks stored for a dataset
stored_chunks(st, dataset) ==
    IF db_dir(dataset) \in DOMAIN st THEN st[db_dir(dataset)] ELSE NoCollection

\* the uploaded document and the chunks summarize_text and
\* prepare_chunks_for_embedding make of it: chunk i of page 0.  The same
\* file goes into every dataset, so the chunk ids of the datasets collide.
Docs == {"d1"}
doc_chunks(doc) == <<[doc_name |-> "a.pdf", page |-> 0, chunk |-> 0, text |-> "t1"]>>

NoAnswer == [status |-> "none", chunks |-> {}]
IdleRequest == [pc |-> "idle", op |-> "none", dataset |-> "", doc |-> "", answer |-> NoAnswer]

ApiIdle ==
    /\ stores = [d \in {} |-> NoCollection]
    /\ last_docs = [n \in {} |-> ""]
    /\ reqs = [c \in Clients |-> IdleRequest]
    /\ resets = {}

\* the handler has answered
answered(status, chunks) ==
    [pc |-> "idle", op |-> "none", dataset |-> "", doc |-> "",
     answer |-> [status |-> status, chunks |-> chunks]]

\* upload_api up to embed_chunks (lines 63-89): the chunks that are not stored
\* in the dataset are embedded and added; an exception is answered with 500
upload_index(c, dataset, doc, embeddings) ==
    LET made == makedirs(stores, db_dir(dataset))
        coll == made[db_dir(dataset)]
        todo == to_embed(coll, doc_chunks(doc), FALSE)
    IN IF todo # <<>> /\ embeddings = "raise"
       THEN /\ stores' = made
            /\ reqs' = [reqs EXCEPT ![c] = answered("error", {})]
       ELSE /\ stores' = [made EXCEPT ![db_dir(dataset)] = collection_add(coll, todo, embeddings)]
            /\ reqs' = [reqs EXCEPT ![c] = [pc |-> "record", op |-> "upload", dataset |-> dataset,
                                            doc |-> doc, answer |-> NoAnswer]]

UploadApi(c) ==
    /\ reqs[c].pc = "idle"
    /\ \E dataset \in DatasetNames, doc \in Docs, embeddings \in EmbedOutcomes :
          upload_index(c, dataset, doc, embeddings)
    /\ UNCHANGED <<last_docs, resets, indexers, limiter>>
    /\ UNCHANGED <<ret, collection, call, src, cache, summ, chk, emb, indexers, limiter>>

\* upload_api lines 90-91
UploadRecord(c) ==
    /\ reqs[c].pc = "record"
    /\ last_docs' = [n \in DOMAIN last_docs \cup {reqs[c].dataset} |->
                        IF n = reqs[c].dataset THEN reqs[c].doc ELSE last_docs[n]]
    /\ resets' = resets \ {reqs[c].dataset}
    /\ reqs' = [reqs EXCEPT ![c] = answered("ok", {})]
    /\ UNCHANGED stores
    /\ UNCHANGED <<ret, collection, call, src, cache, summ, chk, emb, indexers, limiter>>

\* ask_api lines 121-126: without a last uploaded document of the dataset the
\* question is rejected ("No document uploaded yet.")
ask_check(c, dataset) ==
    reqs' = [reqs EXCEPT ![c] =
                IF dataset \in DOMAIN last_docs
                THEN [pc |-> "retrieve", op |-> "ask", dataset |-> dataset,
                      doc |-> "", answer |-> NoAnswer]
                ELSE answered("rejected", {})]

AskApi(c) ==
    /\ reqs[c].pc = "idle"
    /\ \E dataset \in DatasetNames : ask_check(c, dataset)
    /\ UNCHANGED <<stores, last_docs, resets, indexers, limiter>>
    /\ UNCHANGED <<ret, collection, call, src, cache, summ, chk, emb, indexers, limiter>>

\* ask_api lines 143-185: the collection of the dataset is opened (created
\* when missing) and queried with top_k=5, more than a dataset holds here; an
\* exception of the embedding backend is answered with 500
ask_retrieve(c, query_ok) ==
    LET made == makedirs(stores, db_dir(reqs[c].dataset))
    IN /\ stores' = made
       /\ reqs' = [reqs EXCEPT ![c] =
                     IF query_ok
                     THEN answered("answered",
                                   DOMAIN made[db_dir(reqs[c].dataset)])
                     ELSE answered("error", {})]

AskRetrieve(c) ==
    /\ reqs[c].pc = "retrieve"
    /\ \E query_ok \in BOOLEAN : ask_retrieve(c, query_ok)
    /\ UNCHANGED <<last_docs, resets, indexers, limiter>>
    /\ UNCHANGED <<ret, collection, call, src, cache, summ, chk, emb, indexers, limiter>>

\* reset_dataset lines 284-286
reset_rmtree(c, name) ==
    /\ stores' = IF db_dir(name) \in DOMAIN stores THEN rmtree(stores, db_dir(name)) ELSE stores
    /\ reqs' = [reqs EXCEPT ![c] = [pc |-> "pop", op |-> "reset", dataset |-> name,
                                    doc |-> "", answer |-> NoAnswer]]

ResetDataset(c) ==
    /\ reqs[c].pc = "idle"
    /\ \E name \in DatasetNames : reset_rmtree(c, name)
    /\ UNCHANGED <<last_docs, resets, indexers, limiter>>
    /\ UNCHANGED <<ret, collection, call, src, cache, summ, chk, emb, indexers, limiter>>

\* reset_dataset lines 287-289
ResetPop(c) ==
    /\ reqs[c].pc = "pop"
    /\ last_docs' = [n \in DOMAIN last_docs \ {reqs[c].dataset} |-> last_docs[n]]
    /\ resets' = resets \cup {reqs[c].dataset}
    /\ reqs' = [reqs EXCEPT ![c] = answered("ok", {})]
    /\ UNCHANGED stores
    /\ UNCHANGED <<ret, collection, call, src, cache, summ, chk, emb, indexers, limiter>>

(***************************************************************************)
(* Concurrent indexing: two app/rag.py embed_chunks calls (reembed=False)  *)
(* on the same collection                                                  *)
(***************************************************************************)
Workers == {"w1", "w2"}

\* chunk lists as prepare_chunks_for_embedding makes them: no id twice
UniqueChunkLists == {chunks \in ChunkLists : ~has_duplicates(prepared(chunks))}

\* no call is running; on_existing is what collection.add of the installed
\* ChromaDB does with a stored id, last_write the document of the last
\* collection.add call made for an id
ConcurrentInit ==
    /\ collection = NoCollection
    /\ \E on_existing \in AddOnExisting :
          indexers = [on_existing |-> on_existing,
                      last_write |-> [id \in {} |-> ""],
                      w |-> [x \in Workers |-> [pc |-> "idle", outcome |-> "none"]]]

ConcurrentIdle ==
    indexers = [on_existing |-> "raise", last_write |-> [id \in {} |-> ""],
                w |-> [x \in Workers |-> [pc |-> "idle", outcome |-> "none"]]]

\* a worker's call has ended
worker_ended(c, outcome) == [pc |-> "done", outcome |-> outcome, chunks |-> c.chunks]

\* embed_chunks up to the batch loop (lines 107-142), reembed=False,
\* dry_run=False: the existence check reads the collection as it is now
worker_begin(x, chunks, batch_size) ==
    LET todo == to_embed(collection, chunks, FALSE)
        begun == [pc |-> "batch", outcome |-> "running", chunks |-> chunks,
                  batch_size |-> batch_size, todo |-> todo, i |-> 0]
    IN indexers' = [indexers EXCEPT !.w[x] =
                       IF todo = <<>> THEN worker_ended(begun, "returned") ELSE begun]

WorkerEmbedChunks(x) ==
    /\ indexers.w[x].pc = "idle"
    /\ \E chunks \in UniqueChunkLists, batch_size \in BatchSizes :
          worker_begin(x, chunks, batch_size)
    /\ UNCHANGED collection
    /\ UNCHANGED <<ret, call, src, cache, summ, chk, emb, stores, last_docs, reqs, resets, limiter>>

\* one turn of the batch loop (lines 144-157)
worker_batch(x, embeddings) ==
    LET me == indexers.w[x]
        batch == PySlice(me.todo, me.i, me.batch_size)
        wrote == [id \in DOMAIN indexers.last_write \cup {batch[k].id : k \in 1..Len(batch)} |->
                     IF \E k \in 1..Len(batch) : batch[k].id = id
                     THEN batch[CHOOSE k \in 1..Len(batch) : batch[k].id = id].doc
                     ELSE indexers.last_write[id]]
    IN IF embeddings = "raise"
       THEN /\ indexers' = [indexers EXCEPT !.w[x] = worker_ended(me, "raised")]
            /\ UNCHANGED collection
       ELSE IF add_raises(collection, batch, indexers.on_existing)
       THEN /\ indexers' = [indexers EXCEPT !.w[x] = worker_ended(me, "add_raised"),
                                            !.last_write = wrote]
            /\ UNCHANGED collection
       ELSE /\ collection' = collection_add(collection, batch, embeddings)
            /\ indexers' = [indexers EXCEPT
                              !.w[x] = IF me.i + me.batch_size >= Len(me.todo)
                                       THEN worker_ended(me, "returned")
                                       ELSE [me EXCEPT !.i = me.i + me.batch_size],
                              !.last_write = wrote]

WorkerEmbedBatch(x) ==
    /\ indexers.w[x].pc = "batch"
    /\ \E embeddings \in EmbedOutcomes : worker_batch(x, embeddings)
    /\ UNCHANGED <<ret, call, src, cache, summ, chk, emb, stores, last_docs, reqs, resets, limiter>>

(***************************************************************************)
(* Rate limiting: app/api.py rate_limiter, a dependency of every endpoint, *)
(* run in the server's thread pool                                         *)
(***************************************************************************)
\* the threads of the pool that run rate_limiter
Threads == {"t1", "t2"}

\* the limit configured in the environment (60 when unset), set low here
RATE_LIMIT_PER_MIN == 2

\* the length of the window in seconds (line 52)
Window == 60

\* time.time() is followed up to this many seconds
MaxClock == 90

\* the number of requests followed
MaxRequests == 4

RateIdle ==
    limiter = [clock |-> 0, rate_state |-> [ip \in {} |-> <<>>],
               t |-> [x \in Threads |-> [pc |-> "idle", status |-> "none"]],
               accepted |-> <<>>, begun |-> 0]

\* time passes, half a window at a time
Tick ==
    /\ limiter.clock + Window \div 2 <= MaxClock
    /\ limiter' = [limiter EXCEPT !.clock = @ + Window \div 2]
    /\ UNCHANGED <<ret, collection, call, src, cache, summ, chk, emb, stores, last_docs, reqs, resets, indexers>>

\* lines 50-52: the thread reads the time and the client's address
RateLimiterBegin(x) ==
    /\ limiter.t[x].pc = "idle"
    /\ limiter.begun < MaxRequests
    /\ \E ip \in Clients :
          limiter' = [limiter EXCEPT !.t[x] = [pc |-> "read", status |-> "none", ip |-> ip,
                                               now |-> limiter.clock],
                                     !.begun = @ + 1]
    /\ UNCHANGED <<ret, collection, call, src, cache, summ, chk, emb, stores, last_docs, reqs, resets, indexers>>

\* _rate_state.get(ip, []) (line 53)
rate_state_get(ip) ==
    IF ip \in DOMAIN limiter.rate_state THEN limiter.rate_state[ip] ELSE <<>>

\* [t for t in hist if t >= window_start] (line 54): a new list
RECURSIVE in_window(_, _)
in_window(hist, window_start) ==
    IF hist = <<>> THEN <<>>
    ELSE IF Head(hist) >= window_start
         THEN <<Head(hist)>> \o in_window(Tail(hist), window_start)
         ELSE in_window(Tail(hist), window_start)

\* lines 53-56: the history of the address is read and cut to the window; a
\* full history ends the request with 429 and nothing is written
RateLimiterRead(x) ==
    /\ limiter.t[x].pc = "read"
    /\ LET me == limiter.t[x]
           hist == in_window(rate_state_get(me.ip), me.now - Window)
       IN IF Len(hist) >= RATE_LIMIT_PER_MIN
          THEN limiter' = [limiter EXCEPT !.t[x] = [pc |-> "idle", status |-> "429"]]
          ELSE limiter' = [limiter EXCEPT !.t[x] = [pc |-> "store", status |-> "none", ip |-> me.ip,
                                                    now |-> me.now, hist |-> hist]]
    /\ UNCHANGED <<ret, collection, call, src, cache, summ, chk, emb, stores, last_docs, reqs, resets, indexers>>

\* _rate_state[ip] = hist (line 58)
rate_state_set(ip, hist) ==
    [a \in DOMAIN limiter.rate_state \cup {ip} |->
        IF a = ip THEN hist ELSE limiter.rate_state[a]]

\* lines 57-58: the request's time is appended to the thread's list, the list
\* is stored for the address and the request goes on to its handler
RateLimiterStore(x) ==
    /\ limiter.t[x].pc = "store"
    /\ LET me == limiter.t[x]
       IN limiter' = [limiter EXCEPT
                        !.rate_state = rate_state_set(me.ip, Append(me.hist, me.now)),
                        !.accepted = Append(@, [ip |-> me.ip, now |-> me.now]),
                        !.t[x] = [pc |-> "idle", status |-> "accepted"]]
    /\ UNCHANGED <<ret, collection, call, src, cache, summ, chk, emb, stores, last_docs, reqs, resets, indexers>>

(***************************************************************************)
(* Specifications                                                          *)
(***************************************************************************)
SourcesIdle == SourcesInit
CacheIdle == CacheInit
ChunkIdle == ChunkInit

InitRetrieve == RetrieveInit /\ IndexIdle /\ SourcesIdle /\ CacheIdle /\ ChunkIdle /\ EmbedIdle /\ ApiIdle /\ ConcurrentIdle /\ RateIdle
NextRetrieve == Retrieve
SpecRetrieve == InitRetrieve /\ [][NextRetrieve]_vars

InitSources == SourcesInit /\ RetrieveIdle /\ IndexIdle /\ CacheIdle /\ ChunkIdle /\ EmbedIdle /\ ApiIdle /\ ConcurrentIdle /\ RateIdle
NextSources == BuildSources
SpecSources == InitSources /\ [][NextSources]_vars

InitCache == CacheInit /\ RetrieveIdle /\ IndexIdle /\ SourcesIdle /\ ChunkIdle /\ EmbedIdle /\ ApiIdle /\ ConcurrentIdle /\ RateIdle
NextCache == SummarizeChunk \/ CorruptEntry \/ ClearCache
SpecCache == InitCache /\ [][NextCache]_vars

InitChunk == ChunkInit /\ RetrieveIdle /\ IndexIdle /\ SourcesIdle /\ CacheIdle /\ EmbedIdle /\ ApiIdle /\ ConcurrentIdle /\ RateIdle
NextChunk == SmartChunkText
SpecChunk == InitChunk /\ [][NextChunk]_vars

InitIndex == IndexIdle /\ RetrieveIdle /\ SourcesIdle /\ CacheIdle /\ ChunkIdle /\ EmbedIdle /\ ApiIdle /\ ConcurrentIdle /\ RateIdle
NextIndex == EmbedChunks \/ EmbedBatch
SpecIndex == InitIndex /\ [][NextIndex]_vars

InitEmbed == EmbedIdle /\ RetrieveIdle /\ IndexIdle /\ SourcesIdle /\ CacheIdle /\ ChunkIdle /\ ApiIdle /\ ConcurrentIdle /\ RateIdle
NextEmbed == Embed \/ EmbedAttempt
SpecEmbed == InitEmbed /\ [][NextEmbed]_vars

InitApi == ApiIdle /\ RetrieveIdle /\ IndexIdle /\ SourcesIdle /\ CacheIdle /\ ChunkIdle /\ EmbedIdle /\ ConcurrentIdle /\ RateIdle
NextApi ==
    \E c \in Clients :
        \/ UploadApi(c)
        \/ UploadRecord(c)
        \/ AskApi(c)
        \/ AskRetrieve(c)
        \/ ResetDataset(c)
        \/ ResetPop(c)
SpecApi == InitApi /\ [][NextApi]_vars

InitConcurrent ==
    /\ ConcurrentInit
    /\ call = [pc |-> "idle", outcome |-> "none"]
    /\ RetrieveIdle /\ SourcesIdle /\ CacheIdle /\ ChunkIdle /\ EmbedIdle /\ ApiIdle /\ RateIdle
NextConcurrent == \E x \in Workers : WorkerEmbedChunks(x) \/ WorkerEmbedBatch(x)
SpecConcurrent == InitConcurrent /\ [][NextConcurrent]_vars

InitRate == RateIdle /\ RetrieveIdle /\ IndexIdle /\ SourcesIdle /\ CacheIdle /\ ChunkIdle /\ EmbedIdle /\ ApiIdle /\ ConcurrentIdle
NextRate ==
    \/ Tick
    \/ \E x \in Threads : RateLimiterBegin(x) \/ RateLimiterRead(x) \/ RateLimiterStore(x)
SpecRate == InitRate /\ [][NextRate]_vars

(***************************************************************************)
(* Claims                                                                  *)
(***************************************************************************)

\* the ids stored in the collection
C_StoredIds(coll) == DOMAIN coll

\* C1: a second embed_chunks call with the same chunk list and reembed=False,
\* after a first one that returned, leaves the set of chunk ids and the number
\* of stored vectors as they were and sends no chunk to the embedding backend.
C1_IdempotentIndexing ==
    (Returned(call) /\ call.again /\ ~call.reembed /\ ~call.dry_run) =>
        /\ C_StoredIds(collection) = C_StoredIds(call.pre)
        /\ Cardinality(DOMAIN collection) = Cardinality(DOMAIN call.pre)
        /\ collection = call.pre
        /\ call.sent = 0

\* C1 witness: the second call of a list of two chunks has returned, the
\* collection holding both.
C1_Witness ==
    /\ Returned(call) /\ call.again /\ ~call.reembed /\ ~call.dry_run
    /\ Len(call.chunks) = 2
    /\ Cardinality(DOMAIN collection) = 2

\* C2: for every store content, every top_k >= 1 and every combination of
\* hybrid, mmr and the keyword fallback, retrieve returns at most top_k hits.
C2_AtMostTopK == ret.called => Len(ret.result) <= ret.top_k

\* C2 witness: a call whose pool holds more than top_k candidates has returned
\* through the keyword fallback with mmr on.
C2_Witness ==
    /\ ret.called /\ ret.mmr /\ ret.hybrid
    /\ Len(ret.pool) > ret.top_k
    /\ fallback_weak(ret.hits)
    /\ keyword_filter(ret.hits, ret.query_words) # <<>>
    /\ Len(ret.result) = ret.top_k

\* the normalized query tokens a text contains, read off the text word by word
C_TokensIn(text) ==
    {w \in ret.query_words : \E k \in 1..Len(text) : LowerStrip(text[k]) = w}

\* the sort key the specification gives the pool entry of rank i
C_Key(i) ==
    IF ret.hybrid
    THEN ret.pool[i].distance - ret.keyword_weight * Cardinality(C_TokensIn(ret.pool[i].text))
    ELSE ret.pool[i].distance

\* pool entry i comes before pool entry j: smaller key, store order on ties
C_Before(i, j) == C_Key(i) < C_Key(j) \/ (C_Key(i) = C_Key(j) /\ i < j)

\* the list handed to the fallback holds a weak best hit and a keyword candidate
C_FallbackTaken ==
    /\ ret.hits # <<>>
    /\ ret.hits[1].distance > FallbackThreshold
    /\ \E i \in 1..Len(ret.hits) : C_TokensIn(ret.hits[i].text) # {}

\* C3: with mmr off and the fallback not taken, the result is the first top_k
\* entries of the fetched pool in ascending order of hybrid_score (of distance
\* when hybrid is off), entries with equal keys in the order of the store.
C3_SortedPrefix ==
    (ret.called /\ ~ret.mmr /\ ~C_FallbackTaken) =>
        /\ Len(ret.result) = Min(ret.top_k, Len(ret.pool))
        /\ \A i \in 1..Len(ret.result) :
              /\ ret.result[i].id \in 1..Len(ret.pool)
              /\ ret.result[i].text = ret.pool[ret.result[i].id].text
              /\ ret.result[i].distance = ret.pool[ret.result[i].id].distance
              /\ ret.result[i].score = C_Key(ret.result[i].id)
        /\ \A i, j \in 1..Len(ret.result) :
              i < j => C_Before(ret.result[i].id, ret.result[j].id)
        /\ \A p \in 1..Len(ret.pool) :
              (\A i \in 1..Len(ret.result) : ret.result[i].id # p) =>
                  \A i \in 1..Len(ret.result) : C_Before(ret.result[i].id, p)

\* C3 witness: a hybrid call without mmr and fallback whose result leaves out
\* part of the pool, does not start with the nearest chunk, and holds two
\* hits of equal hybrid_score.
C3_Witness ==
    /\ ret.called /\ ~ret.mmr /\ ret.hybrid /\ ~C_FallbackTaken
    /\ Len(ret.pool) > ret.top_k
    /\ Len(ret.result) = 2
    /\ ret.result[1].id # 1
    /\ ret.result[1].score = ret.result[2].score

\* a pool of near-duplicates and one diverse candidate: at least two chunks of
\* the same text whose distances are small and differ by at most 0.1, and one
\* more chunk, the last of the pool, at least 0.5 further away
C4_NearDupPool ==
    /\ Len(ret.pool) >= 3
    /\ \A i \in 1..(Len(ret.pool) - 1) :
          /\ ret.pool[i].text = ret.pool[1].text
          /\ ret.pool[i].distance <= ret.pool[1].distance + 1
          /\ ret.pool[i].distance < FallbackThreshold
    /\ ret.pool[Len(ret.pool)].distance >= ret.pool[Len(ret.pool) - 1].distance + 5

\* the positions in the MMR selection of the chunk with id i
C4_PickOf(i) == {k \in 1..Len(ret.hits) : ret.hits[k].id = i}

\* every near-duplicate was picked and the diverse candidate was not picked
\* before the last of them
C4_DupsExhaustedFirst ==
    /\ \A i \in 1..(Len(ret.pool) - 1) : C4_PickOf(i) # {}
    /\ \A k \in C4_PickOf(Len(ret.pool)) :
          \A i \in 1..(Len(ret.pool) - 1) : \A m \in C4_PickOf(i) : m < k

C5_KeywordIdx == {k \in 1..Len(ret.hits) : C_TokensIn(ret.hits[k].text) # {}}

C6_Monotone ==
    \A i, j \in 1..Len(ret.ranked) :
        (/\ ret.ranked[i].distance = ret.ranked[j].distance
         /\ Cardinality(C_TokensIn(ret.ranked[i].text)) > Cardinality(C_TokensIn(ret.ranked[j].text)))
        => ret.ranked[i].hybrid_score < ret.ranked[j].hybrid_score

\* C6 as claimed: hybrid monotonicity for every keyword_weight a caller passes.
C6_HybridMonotone_Claimed == (ret.called /\ ret.hybrid) => C6_Monotone

\* C6 amended: hybrid monotonicity for every keyword_weight > 0.
C6_HybridMonotonePositiveWeight ==
    (ret.called /\ ret.hybrid /\ ret.keyword_weight > 0) => C6_Monotone

\* C6 witness: a hybrid call with keyword_weight > 0 scored two candidates at
\* the same distance with different numbers of query tokens.
C6_Witness ==
    /\ ret.called /\ ret.hybrid /\ ret.keyword_weight > 0
    /\ \E i, j \in 1..Len(ret.ranked) :
          /\ ret.ranked[i].distance = ret.ranked[j].distance
          /\ Cardinality(C_TokensIn(ret.ranked[i].text)) > Cardinality(C_TokensIn(ret.ranked[j].text))

\* C7: the references are ordered by ascending page and, on the same page, by
\* descending number of contributed chunk ids; index is 1, 2, ... in the
\* output order; at most max_refs references are returned, the first of that
\* order.
C7_OrderedIndexedTruncated ==
    src.called =>
        /\ Len(src.sources) = Min(src.max_refs, Len(src.ordered))
        /\ \A i \in 1..Len(src.sources) :
              /\ src.sources[i].index = i
              /\ src.sources[i].doc_name = src.ordered[i].doc_name
              /\ src.sources[i].page = src.ordered[i].page
              /\ src.sources[i].chunk_ids = src.ordered[i].chunk_ids
        /\ \A i, j \in 1..Len(src.ordered) :
              i < j =>
                  \/ src.ordered[i].page < src.ordered[j].page
                  \/ /\ src.ordered[i].page = src.ordered[j].page
                     /\ Len(src.ordered[i].chunk_ids) >= Len(src.ordered[j].chunk_ids)

\* C7 witness: two references of the same page were returned, the one with
\* more chunk ids first although its hits came later, and a third reference
\* was cut off by max_refs.
C7_Witness ==
    /\ src.called
    /\ Len(src.sources) = 2 /\ Len(src.ordered) = 3
    /\ src.sources[1].page = src.sources[2].page
    /\ Len(src.sources[1].chunk_ids) > Len(src.sources[2].chunk_ids)
    /\ src.hits[1].doc_name = src.sources[2].doc_name

\* the hits of one (doc_name, page) key, as positions in the hit list
C8_HitsOf(doc_name, page) ==
    {i \in 1..Len(src.hits) : src.hits[i].doc_name = doc_name /\ src.hits[i].page = page}

\* C8: before truncation there is exactly one reference per distinct
\* (doc_name, page) of the hits; a reference holds the chunk ids of exactly the
\* hits of its key, and its snippet is taken from the first hit of its key.
C8_GroupedByDocPage ==
    src.called =>
        /\ \A i \in 1..Len(src.hits) :
              \E g \in 1..Len(src.ordered) :
                  /\ src.ordered[g].doc_name = src.hits[i].doc_name
                  /\ src.ordered[g].page = src.hits[i].page
        /\ \A g, h \in 1..Len(src.ordered) :
              (src.ordered[g].doc_name = src.ordered[h].doc_name
                 /\ src.ordered[g].page = src.ordered[h].page) => g = h
        /\ \A g \in 1..Len(src.ordered) :
              LET mine == C8_HitsOf(src.ordered[g].doc_name, src.ordered[g].page)
                  with_id == {i \in mine : src.hits[i].chunk_id # ""}
              IN /\ mine # {}
                 /\ Range(src.ordered[g].chunk_ids) = {src.hits[i].chunk_id : i \in with_id}
                 /\ Len(src.ordered[g].chunk_ids) = Cardinality(with_id)
                 /\ src.ordered[g].snippet = short_snippet(src.hits[kth(mine, 1)].text)

\* C8 witness: the hits [(docA,1), (docA,1), (docB,2)] gave two references,
\* the first for (docA,1) with two chunk ids and the snippet of the first hit,
\* whose text differs from the second hit's.
C8_Witness ==
    /\ src.called
    /\ Len(src.hits) = 3 /\ Len(src.ordered) = 2
    /\ src.hits[1].doc_name = "docA" /\ src.hits[1].page = 1
    /\ src.hits[2].doc_name = "docA" /\ src.hits[2].page = 1
    /\ src.hits[3].doc_name = "docB" /\ src.hits[3].page = 2
    /\ src.hits[1].text # src.hits[2].text
    /\ src.ordered[1].doc_name = "docA"
    /\ Len(src.ordered[1].chunk_ids) = 2
    /\ src.ordered[1].snippet = <<"a", " ", "b">>

\* C9 as claimed: with caching on, a chunk summarized again with the same
\* (chunk text, model, prompt) as an earlier cached call, the cache not
\* cleared in between, makes no model call, whatever the earlier summary was.
C9_SecondCallHitsCache_Claimed ==
    (summ.called /\ summ.cache /\ summ.repeat) => ~summ.invoked

\* the concatenation of a sequence of token sequences
RECURSIVE C10_Flatten(_)
C10_Flatten(seqs) ==
    IF seqs = <<>> THEN <<>>
    ELSE C10_Flatten(SubSeq(seqs, 1, Len(seqs) - 1)) \o seqs[Len(seqs)]

\* chunk k without the text carried over from the chunk before it
C10_Own(k) == SubSeq(chk.chunks[k].text, chk.chunks[k].ov + 1, Len(chk.chunks[k].text))

\* C10: no sentence is dropped: the chunks without their carried-over overlap,
\* put one after the other, are the sentences of the input in their order,
\* and every non-empty sentence lies in exactly one chunk.
C10_ChunkCoverage ==
    chk.called =>
        /\ C10_Flatten([k \in 1..Len(chk.chunks) |-> C10_Own(k)]) = C10_Flatten(chk.sentences)
        /\ \A i \in 1..Len(chk.sentences) :
              chk.sentences[i] # <<>> =>
                  Cardinality({k \in 1..Len(chk.chunks) :
                                  Range(chk.sentences[i]) \subseteq Range(C10_Own(k))}) = 1

\* C10 witness: a text that starts with a sentence longer than max_tokens,
\* emitted as a chunk of its own, and holds a blank sentence was cut, with
\* overlap, into at least three chunks, one starting with carried-over text.
C10_Witness ==
    /\ chk.called /\ chk.overlap > 0
    /\ Len(chk.sentences) >= 3
    /\ Len(chk.sentences[1]) > chk.max_tokens
    /\ chk.chunks[1].text = chk.sentences[1]
    /\ \E i \in 1..Len(chk.sentences) : chk.sentences[i] = <<>>
    /\ Len(chk.chunks) >= 3
    /\ \E k \in 1..Len(chk.chunks) : chk.chunks[k].ov > 0

\* chunk k is one whole sentence of the input that alone is longer than max_tokens
C11_SingleLongSentence(k) ==
    \E i \in 1..Len(chk.sentences) :
        /\ chk.chunks[k].text = chk.sentences[i]
        /\ Len(chk.sentences[i]) > chk.max_tokens

\* C11 (as claimed): every chunk has at most max_tokens tokens, except a chunk
\* that is one single sentence which alone is longer than max_tokens.
C11_ChunkSizeBound_Claimed ==
    chk.called =>
        \A k \in 1..Len(chk.chunks) :
            Len(chk.chunks[k].text) <= chk.max_tokens \/ C11_SingleLongSentence(k)

\* the tokens that chunks k and k + 1 have in common
C12_Shared(k) == Range(chk.chunks[k].text) \cap Range(chk.chunks[k + 1].text)

\* C12: two consecutive chunks share at most `overlap` tokens, none when
\* overlap = 0, and none when the first of the two is an over-long sentence
\* emitted as a chunk of its own.
C12_OverlapBound ==
    chk.called =>
        \A k \in 1..(Len(chk.chunks) - 1) :
            /\ Cardinality(C12_Shared(k)) <= chk.overlap
            /\ chk.overlap = 0 => C12_Shared(k) = {}
            /\ C11_SingleLongSentence(k) => C12_Shared(k) = {}

\* C12 witness: with overlap > 0, a pair of consecutive chunks shares exactly
\* `overlap` tokens, and an over-long sentence emitted alone is followed by a
\* chunk.
C12_Witness ==
    /\ chk.called /\ chk.overlap > 0
    /\ \E k \in 1..(Len(chk.chunks) - 1) : Cardinality(C12_Shared(k)) = chk.overlap
    /\ \E k \in 1..(Len(chk.chunks) - 1) : C11_SingleLongSentence(k)

\* the non-blank sentences of the input, by position
C13_NonBlank == {i \in 1..Len(chk.sentences) : chk.sentences[i] # <<>>}

RECURSIVE C13_TotalTokens(_)
C13_TotalTokens(sentences) ==
    IF sentences = <<>> THEN 0
    ELSE C13_TotalTokens(SubSeq(sentences, 1, Len(sentences) - 1)) + Len(sentences[Len(sentences)])

\* each sentence fits in max_tokens alone, no two consecutive (non-blank)
\* sentences fit together
C13_OnePerSentenceCase ==
    /\ \A i \in C13_NonBlank : Len(chk.sentences[i]) <= chk.max_tokens
    /\ \A i, j \in C13_NonBlank :
          (i < j /\ \A m \in C13_NonBlank : ~(i < m /\ m < j)) =>
              Len(chk.sentences[i]) + Len(chk.sentences[j]) > chk.max_tokens

\* C13: a text whose sentences (at least one) sum to at most max_tokens gives
\* exactly one chunk; sentences that each fit alone but never two consecutive
\* ones together give, with overlap = 0, one chunk per sentence; a text
\* without any sentence gives zero chunks.
C13_ChunkCount ==
    chk.called =>
        /\ (C13_NonBlank # {} /\ C13_TotalTokens(chk.sentences) <= chk.max_tokens) =>
               Len(chk.chunks) = 1
        /\ (C13_OnePerSentenceCase /\ chk.overlap = 0) =>
               Len(chk.chunks) = Cardinality(C13_NonBlank)
        /\ C13_NonBlank = {} => Len(chk.chunks) = 0

\* C13 witness: three sentences that never fit two together were cut, with
\* overlap = 0, into three chunks.
C13_Witness ==
    /\ chk.called /\ chk.overlap = 0
    /\ Cardinality(C13_NonBlank) = 3
    /\ C13_OnePerSentenceCase
    /\ Len(chk.chunks) = 3

\* C13 witness of the first case: several sentences that fit together are one chunk
C13_WitnessOneChunk ==
    /\ chk.called
    /\ Cardinality(C13_NonBlank) >= 2
    /\ C13_TotalTokens(chk.sentences) <= chk.max_tokens
    /\ Len(chk.chunks) = 1

\* C14: a call of embed_chunks with dry_run=True sends nothing to the
\* embedding backend and leaves the collection (ids, vectors, documents) as
\* it was, whatever the chunks and whatever reembed.
C14_DryRunNoEffect ==
    (call.outcome # "none" /\ call.dry_run) =>
        /\ Returned(call)
        /\ call.sent = 0
        /\ collection = call.pre

\* C14 witness: a dry run with reembed=True over a list with a stored chunk in
\* a new version of its text and a chunk that is not stored has returned.
C14_Witness ==
    /\ Returned(call) /\ call.dry_run /\ call.reembed
    /\ Len(call.chunks) = 2
    /\ collection # NoCollection
    /\ \E i \in 1..2 : /\ chunk_id(call.chunks[i]) \in DOMAIN collection
                        /\ collection[chunk_id(call.chunks[i])].doc # call.chunks[i].text
    /\ \E i \in 1..2 : chunk_id(call.chunks[i]) \notin DOMAIN collection

\* C15 (as claimed): an openai embed call all of whose attempts failed, by
\* rate limit, by another failure or a mix, has raised; a call that returned
\* has returned one vector per text.
C15_ExhaustedRetriesRaise_Claimed ==
    emb.pc = "done" =>
        /\ (emb.model_name = "openai" /\ Len(emb.failures) = emb.max_retries) =>
               emb.outcome = "raised"
        /\ emb.outcome = "returned" => emb.result = vectors(emb.texts)

\* the ids the call had to embed: those of its list, without reembed only
\* the ones that were not stored when it started
C16_ToEmbed ==
    LET todo == to_embed(call.pre, call.chunks, call.reembed)
    IN {todo[k].id : k \in 1..Len(todo)}

\* C16 (as claimed): when the embedding call of one batch has failed, the
\* chunks of every other batch of the call, before and after it, are stored.
C16_FailedBatchOnly_Claimed ==
    (call.pc = "idle" /\ call.outcome = "raised") =>
        \A id \in C16_ToEmbed \ call.failed : id \in DOMAIN collection

\* the request client c is serving in this step
C17_Acting(c) == IF reqs[c].pc = "idle" THEN reqs'[c] ELSE reqs[c]

\* dataset B has the same stored chunks and the same last uploaded document
\* before and after the step
C17_Untouched(B) ==
    /\ stored_chunks(stores', B) = stored_chunks(stores, B)
    /\ (B \in DOMAIN last_docs') = (B \in DOMAIN last_docs)
    /\ B \in DOMAIN last_docs => last_docs'[B] = last_docs[B]

\* C17 (as claimed): a step of an upload into dataset A or of a reset of A
\* leaves the stored chunks and the last-document record of every other
\* dataset B as they were.
C17_NamespaceIsolation_Claimed ==
    [][\A c \in Clients :
          (reqs'[c] # reqs[c] /\ C17_Acting(c).op \in {"upload", "reset"}) =>
              \A B \in DatasetNames \ {C17_Acting(c).dataset} : C17_Untouched(B)]_vars

\* client c's reset of dataset n returns in this step
C18_ResetReturns(c, n) ==
    reqs[c].pc = "pop" /\ reqs[c].dataset = n /\ reqs'[c].pc = "idle"

\* client c's ask on dataset n gets past the 'No document uploaded yet'
\* check, or retrieves, in this step
C18_AskProceeds(c, n) ==
    \/ reqs[c].pc = "idle" /\ reqs'[c].op = "ask" /\ reqs'[c].dataset = n
    \/ reqs[c].pc = "retrieve" /\ reqs[c].dataset = n /\ reqs'[c] # reqs[c]

\* C18 (as claimed): when reset_dataset(n) returns ok the dataset holds no
\* stored chunk and no last-document record; from then on, until an upload
\* into n succeeds, n has no last-document record and no ask on n gets past
\* the 'No document uploaded yet' check or retrieves.
C18_ResetEmpties_Claimed ==
    /\ [](\A n \in resets : n \notin DOMAIN last_docs)
    /\ [][\A c \in Clients, n \in DatasetNames :
             /\ C18_ResetReturns(c, n) =>
                    /\ stored_chunks(stores', n) = NoCollection
                    /\ n \notin DOMAIN last_docs'
             /\ (n \in resets /\ n \in resets') => ~C18_AskProceeds(c, n)]_vars

\* C19 (as claimed): no ask on a dataset is under way while a reset of the
\* same dataset is under way.
C19_ResetExclusive_Claimed ==
    \A c, d \in Clients :
        ~(/\ reqs[c].op = "reset"
          /\ reqs[d].op = "ask"
          /\ reqs[c].dataset = reqs[d].dataset)

\* the chunk ids of a worker's list
C20_Ids(x) == {chunk_id(indexers.w[x].chunks[k]) : k \in 1..Len(indexers.w[x].chunks)}

\* both calls have ended, neither by a failure of the embedding backend, and
\* their lists share a chunk id
C20_BothEnded ==
    /\ \A x \in Workers : indexers.w[x].pc = "done" /\ indexers.w[x].outcome # "raised"
    /\ C20_Ids("w1") \cap C20_Ids("w2") # {}

\* C20 (as claimed): however two embed_chunks calls (reembed=False) whose
\* lists share chunk ids interleave, both return without error and the
\* collection holds one entry per chunk id, that of the last write.
C20_ConcurrentIndexing_Claimed ==
    C20_BothEnded =>
        /\ \A x \in Workers : indexers.w[x].outcome = "returned"
        /\ DOMAIN collection = C20_Ids("w1") \cup C20_Ids("w2")
        /\ \A id \in DOMAIN collection : collection[id].doc = indexers.last_write[id]

\* the keyword fallback was taken: the call returned the keyword-filtered list
C21_FallbackFired ==
    fallback_weak(ret.hits) /\ keyword_filter(ret.hits, ret.query_words) # <<>>

\* C21 (as claimed): when a candidate of the fetched pool has distance at most
\* 0.7, retrieve returns the ranked list (sorted, MMR-selected when mmr is on)
\* cut to top_k, whatever hybrid and keyword_weight.
C21_FallbackOnlyWhenAllWeak_Claimed ==
    (ret.called /\ \E i \in 1..Len(ret.pool) : ret.pool[i].distance <= FallbackThreshold) =>
        ret.result = PyPrefix(ret.hits, ret.top_k)

\* the ids of the hits of a list
C22_Ids(hits) == {hits[k].id : k \in 1..Len(hits)}

\* the position of the fetched candidate with this id in the sorted pool
C22_Rank(id) == CHOOSE r \in 1..Len(ret.ranked) : ret.ranked[r].id = id

\* C22 (as claimed): when the fallback fires, a fetched candidate that holds a
\* query token is missing from the result only if the result holds top_k
\* keyword candidates, all ranked before it when mmr is off; also with mmr.
C22_FallbackFiltersWholePool_Claimed ==
    (ret.called /\ C21_FallbackFired) =>
        \A i \in 1..Len(ret.pool) :
            (C_TokensIn(ret.pool[i].text) # {} /\ i \notin C22_Ids(ret.result)) =>
                /\ Len(ret.result) = ret.top_k
                /\ ~ret.mmr => \A id \in C22_Ids(ret.result) : C22_Rank(id) < C22_Rank(i)

\* mmr_lambda * (1 - distance to the query) - (1 - mmr_lambda) * (greatest
\* similarity to a selected hit) of the fetched candidate i, in hundredths,
\* the similarity of two candidates being 1 - |difference of their distances|
C23_Score(i, S) ==
    ret.mmr_lambda * (One - ret.pool[i].distance)
    - (One - ret.mmr_lambda)
      * SetMax({One - Abs(ret.pool[i].distance - ret.pool[s].distance) : s \in S})

\* the ids selected before pick k
C23_Earlier(k) == {ret.hits[m].id : m \in 1..(k - 1)}

C24_BoundedRetry ==
    (emb.pc # "idle" /\ emb.model_name = "openai") =>
        /\ emb.calls <= emb.max_retries
        /\ emb.pc = "attempt" => emb.calls < emb.max_retries
        /\ Len(emb.sleeps) = Len(emb.failures)
        /\ \A k \in 1..Len(emb.failures) :
              /\ emb.failures[k] = "RateLimitError" => emb.sleeps[k] = 60
              /\ (emb.failures[k] = "Exception" /\ k - 1 < emb.max_retries - 1) =>
                     emb.sleeps[k] = 2 ^ (k - 1)
              /\ (emb.failures[k] = "Exception" /\ k - 1 = emb.max_retries - 1) =>
                     emb.sleeps[k] = 0
        /\ (emb.pc = "done" /\ emb.result = vectors(emb.texts)) =>
               emb.calls = Len(emb.failures) + 1
        /\ emb.calls > Len(emb.failures) => emb.pc = "done"

\* C24 witness: a call with max_retries = 5 succeeded in its fifth attempt
\* after generic failures and a rate-limit failure.
C24_Witness ==
    /\ emb.pc = "done" /\ emb.model_name = "openai" /\ emb.max_retries = 5
    /\ emb.result = vectors(emb.texts)
    /\ emb.calls = 5
    /\ emb.failures[3] = "Exception"
    /\ \E k \in 1..4 : emb.failures[k] = "RateLimitError"

\* C25 (as claimed): a cache hit returns a summary stored for exactly the same
\* (chunk text, model, prompt) triple: a call that took its summary from the
\* cache was preceded by a caching call with the same triple.
C25_KeyedByTriple_Claimed ==
    (summ.called /\ summ.cache /\ ~summ.raised /\ ~summ.invoked) => summ.repeat

C30_Stored == {i \in 1..Len(call.chunks) : chunk_id(call.chunks[i]) \in DOMAIN call.pre}

\* C30: in a call with reembed=False, a supplied chunk whose id is already
\* stored leaves the stored entry of that id as it was, whatever its text,
\* and is not sent to the embedding backend: at most the other chunks are sent.
C30_FirstWriteWins ==
    (call.outcome # "none" /\ ~call.reembed /\ ~call.dry_run) =>
        /\ \A i \in C30_Stored :
              /\ chunk_id(call.chunks[i]) \in DOMAIN collection
              /\ collection[chunk_id(call.chunks[i])] = call.pre[chunk_id(call.chunks[i])]
        /\ call.sent <= Len(call.chunks) - Cardinality(C30_Stored)

\* C30 witness: a call with reembed=False has returned whose list holds a
\* stored id with a text other than the stored one, and a new chunk that it
\* stored.
C30_Witness ==
    /\ Returned(call) /\ ~call.reembed /\ ~call.dry_run
    /\ \E i \in C30_Stored : call.pre[chunk_id(call.chunks[i])].doc # call.chunks[i].text
    /\ \E i \in 1..Len(call.chunks) : i \notin C30_Stored
    /\ call.sent = 1
    /\ Cardinality(DOMAIN collection) = 2

\* the cache key of the call recorded in s
C27_Key(s) == cache_key(s.chunk, s.model, s.prompt_seed)

\* C27 (as claimed): a call of summarize_text with caching on whose cache
\* entry exists and cannot be read raises nothing: it calls the model, writes
\* the new summary over the entry and returns it.
C27_CorruptionIsMiss_Claimed ==
    [][(/\ SummarizeChunk /\ summ'.cache
        /\ C27_Key(summ') \in DOMAIN cache
        /\ cache[C27_Key(summ')] = Unreadable) =>
            /\ ~summ'.raised /\ summ'.invoked
            /\ cache'[C27_Key(summ')] = summ'.summary]_vars

\* C29: a model call that fails makes summarize_text return the error text
\* and, with caching on, store it under the key of the call; while an entry
\* holds the error text, every call of summarize_text leaves it in place and
\* every caching call with that key returns the error text without a model
\* call; clear_cache removes the entry.
C29_FailureIsCached ==
    /\ [][(SummarizeChunk /\ summ'.invoked /\ ~summ'.outcome.ok) =>
            /\ summ'.summary = ErrorText
            /\ summ'.cache => /\ C27_Key(summ') \in DOMAIN cache'
                              /\ cache'[C27_Key(summ')] = ErrorText]_vars
    /\ [][SummarizeChunk =>
            \A k \in DOMAIN cache : cache[k] = ErrorText =>
                /\ k \in DOMAIN cache' /\ cache'[k] = ErrorText
                /\ (summ'.cache /\ C27_Key(summ') = k) =>
                      /\ ~summ'.raised /\ ~summ'.invoked
                      /\ summ'.summary = ErrorText]_vars
    /\ [][ClearCache => DOMAIN cache' = {}]_vars

\* C29 witness: a caching call repeated a triple of an earlier caching call
\* and returned the error text from the cache, without a model call.
C29_Witness ==
    /\ summ.called /\ summ.cache /\ summ.repeat
    /\ ~summ.raised /\ ~summ.invoked
    /\ summ.summary = ErrorText
    /\ cache[C27_Key(summ)] = ErrorText

\* the requests of address ip accepted with a time from a to a + Window
C28_Accepted(ip, a) ==
    {i \in 1..Len(limiter.accepted) :
        /\ limiter.accepted[i].ip = ip
        /\ a <= limiter.accepted[i].now /\ limiter.accepted[i].now <= a + Window}

\* C28 (as claimed): for every client address and every window of 60 seconds,
\* the requests rate_limiter accepted are at most RATE_LIMIT_PER_MIN, under
\* every interleaving of the threads.
C28_AtMostLimitPerWindow_Claimed ==
    \A ip \in Clients : \A a \in 0..MaxClock :
        Cardinality(C28_Accepted(ip, a)) <= RATE_LIMIT_PER_MIN
====
